---- MODULE Spec2Model ----
(***************************************************************************)
(* Model of watchdog/observers/inotify_observer.py: the InotifyObserver   *)
(* (rule registry, notifier set, shared pyinotify WatchManager) and the   *)
(* _ProcessEventDispatcher that translates raw inotify events into        *)
(* watchdog events.                                                        *)
(*                                                                         *)
(* Paths are sequences of components: <<"a", "s">> is /a/s.                *)
(* pyinotify is an external library; it is modelled by its contract:       *)
(*   - WatchManager.add_watch returns {path: wd}; the kernel hands out a   *)
(*     fresh wd per new watch and the existing wd for a watched path;      *)
(*   - WatchManager.rm_watch removes the given wds, ignoring unknown ones; *)
(*   - every Notifier built on one WatchManager reads that manager's one   *)
(*     inotify queue and hands each event it reads to its own dispatcher;  *)
(*   - ThreadedNotifier.start starts the reading thread, stop ends it.     *)
(***************************************************************************)
EXTENDS Integers, Sequences, FiniteSets, TLC

VARIABLES
    wm,            \* self._wm: the active watches, wd -> watched path
    nextWd,        \* the next watch descriptor the kernel hands out
    notifiers,     \* self._notifiers: the notifier objects, by identity 1..Len
    name_to_rule,  \* self._name_to_rule: name -> _Rule
    stopped,       \* DaemonThread.stopped (is_stopped)
    queue,         \* raw events waiting in the WatchManager's inotify queue
    last,          \* the outcome of the API call just made (None otherwise)
    dispatched,    \* what the event just pumped made its handler receive
    status,        \* history: per name, "never" | "scheduled" | "unscheduled"
    added,         \* history: per name, the wds its last schedule obtained
    lock,          \* self._lock: the thread that owns it, or Free
    cpc,           \* per calling thread, where it is in its API call
    call,          \* per calling thread, the API call it is making
    todo,          \* on_stopping's loop: the notifiers still to be stopped
    npc,           \* per notifier thread, where it is in its loop
    cur,           \* per notifier thread, the event it read
    arrived,       \* how many raw events have entered the queue
    log            \* history: the handler invocations, in the order they began

threads == <<lock, cpc, call, todo, npc, cur, arrived, log>>

vars == <<wm, nextWd, notifiers, name_to_rule, stopped, queue, last,
          dispatched, status, added, threads>>

observer == <<wm, nextWd, notifiers, name_to_rule>>

(***************************************************************************)
(* Bounds                                                                  *)
(***************************************************************************)
MaxNotifiers == 2
MaxWd == 3
MaxPaths == 2
MaxNames == 2
MaxQueue == 1
MaxDesc == 2
MaxStops == 2
MaxArrived == 2

(***************************************************************************)
(* The world: rule names, directories, and what callers pass as paths      *)
(***************************************************************************)
Names == {"r", "s"}

DirA == <<"a">>
DirAS == <<"a", "s">>
DirB == <<"b">>
LinkL == <<"l">>
NotAString == <<"<int>">>
EmptyStr == <<>>

PathElems == {DirA, LinkL, NotAString}

RECURSIVE SeqsUpTo(_, _)
SeqsUpTo(S, n) ==
    IF n = 0 THEN {<<>>}
    ELSE LET shorter == SeqsUpTo(S, n - 1)
         IN shorter \cup {Append(q, x) : q \in {t \in shorter : Len(t) = n - 1}, x \in S}

PathsArgs ==
    {[tag |-> "None", s |-> EmptyStr, l |-> <<>>]}
    \cup {[tag |-> "str", s |-> p, l |-> <<>>] : p \in {EmptyStr, DirA, LinkL}}
    \cup {[tag |-> "list", s |-> EmptyStr, l |-> q] : q \in SeqsUpTo(PathElems, MaxPaths)}

NamesArgs == SeqsUpTo(Names, MaxNames)

None == [op |-> "none"]

\* the threads that call schedule, unschedule and stop, and the notifier threads
Callers == {"t1", "t2"}
WorkerThread(i) == "w" \o ToString(i)
Free == "free"

(***************************************************************************)
(* Collaborators                                                           *)
(***************************************************************************)
\* watchdog.utils.real_absolute_path: canonical absolute form, symlinks resolved
real_absolute_path(path) == IF path = LinkL THEN DirB ELSE path

\* watchdog.utils.absolute_path: normalised absolute form ("." components dropped)
absolute_path(path) == SelectSeq(path, LAMBDA c : c # ".")

\* the subdirectories pyinotify walks below path when rec=True
Subdirs(path) == IF path = DirA THEN <<DirAS>> ELSE <<>>

WdOf(w, path) == CHOOSE d \in DOMAIN w : w[d] = path

\* the kernel's inotify_add_watch: the path's wd if it is watched, else a fresh one
RECURSIVE AddEach(_, _, _, _)
AddEach(w, n, ps, ret) ==
    IF ps = <<>> THEN [wm |-> w, nextWd |-> n, ret |-> ret]
    ELSE LET p == Head(ps)
         IN IF \E d \in DOMAIN w : w[d] = p
            THEN AddEach(w, n, Tail(ps), ret \cup {WdOf(w, p)})
            ELSE AddEach([d \in DOMAIN w \cup {n} |-> IF d = n THEN p ELSE w[d]],
                         n + 1, Tail(ps), ret \cup {n})

\* WatchManager.add_watch(path, ALL_EVENTS, rec=rec, auto_add=True): the wds of
\* path and, with rec, of its subdirectories
add_watch(w, n, path, rec) ==
    AddEach(w, n, IF rec THEN <<path>> \o Subdirs(path) ELSE <<path>>, {})

\* WatchManager.rm_watch(wds)
rm_watch(w, wds) == [d \in DOMAIN w \ wds |-> w[d]]

(***************************************************************************)
(* InotifyObserver                                                         *)
(***************************************************************************)
Init ==
    /\ wm = <<>>
    /\ nextWd = 1
    /\ notifiers = <<>>
    /\ name_to_rule = <<>>
    /\ stopped = FALSE
    /\ queue = <<>>
    /\ last = None
    /\ dispatched = None
    /\ status = [n \in Names |-> "never"]
    /\ added = [n \in Names |-> {}]
    /\ lock = Free
    /\ cpc = [t \in Callers |-> "idle"]
    /\ call = [t \in Callers |-> None]
    /\ todo = <<>>
    /\ npc = [i \in 1..MaxNotifiers |-> "poll"]
    /\ cur = [i \in 1..MaxNotifiers |-> None]
    /\ arrived = 0
    /\ log = <<>>

\* `not paths` is false for None, "" and []
Truthy_is_not_None(paths) == paths.tag # "None"

Truthy(paths) ==
    CASE paths.tag = "None" -> FALSE
      [] paths.tag = "str" -> paths.s # EmptyStr
      [] OTHER -> paths.l # <<>>

\* if isinstance(paths, basestring): paths = [paths]
AsList(paths) == IF paths.tag = "str" THEN <<paths.s>> ELSE paths.l

isinstance_basestring(path) == path # NotAString

\* the index of the first element of ps the loop raises TypeError on, 0 if none
FirstBad(ps) ==
    IF \E i \in 1..Len(ps) : ~isinstance_basestring(ps[i])
    THEN CHOOSE i \in 1..Len(ps) :
            /\ ~isinstance_basestring(ps[i])
            /\ \A j \in 1..(i - 1) : isinstance_basestring(ps[j])
    ELSE 0

\* the loop over paths: each turn rebinds `descriptors` to that path's add_watch result
RECURSIVE AddPaths(_, _, _, _, _)
AddPaths(w, n, ps, rec, descriptors) ==
    IF ps = <<>> THEN [wm |-> w, nextWd |-> n, descriptors |-> descriptors]
    ELSE LET r == add_watch(w, n, real_absolute_path(Head(ps)), rec)
         IN AddPaths(r.wm, r.nextWd, Tail(ps), rec, r.ret)

\* every wd the loop obtained (history only)
RECURSIVE AllAdded(_, _, _, _)
AllAdded(w, n, ps, rec) ==
    IF ps = <<>> THEN {}
    ELSE LET r == add_watch(w, n, real_absolute_path(Head(ps)), rec)
         IN r.ret \cup AllAdded(r.wm, r.nextWd, Tail(ps), rec)

schedule(name, paths, recursive) ==
    IF ~Truthy(paths)
    THEN /\ last' = [op |-> "schedule", result |-> "ValueError"]
         /\ UNCHANGED <<observer, status, added>>
    ELSE LET ps == AsList(paths)
             bad == FirstBad(ps)
             good == IF bad = 0 THEN ps ELSE SubSeq(ps, 1, bad - 1)
             id == Len(notifiers) + 1
             r == AddPaths(wm, nextWd, good, recursive, {})
         IN /\ id <= MaxNotifiers
            /\ r.nextWd <= MaxWd + 1
            /\ notifiers' = Append(notifiers,
                   [event_handler |-> name, recursive |-> recursive,
                    started |-> (bad = 0), stops |-> 0])
            /\ wm' = r.wm
            /\ nextWd' = r.nextWd
            /\ IF bad = 0
               THEN /\ name_to_rule' =
                        [x \in DOMAIN name_to_rule \cup {name} |->
                            IF x = name
                            THEN [name |-> name, notifier |-> id,
                                  descriptors |-> r.descriptors]
                            ELSE name_to_rule[x]]
                    /\ status' = [status EXCEPT ![name] = "scheduled"]
                    /\ added' = [added EXCEPT
                                   ![name] = AllAdded(wm, nextWd, good, recursive)]
                    /\ last' = [op |-> "schedule", result |-> "ok"]
               ELSE /\ UNCHANGED <<name_to_rule, status, added>>
                    /\ last' = [op |-> "schedule", result |-> "TypeError"]

Schedule ==
    /\ \E name \in Names, paths \in PathsArgs, recursive \in BOOLEAN :
          schedule(name, paths, recursive)
    /\ dispatched' = None
    /\ UNCHANGED <<stopped, queue, threads>>

\* the names unschedule(*names) works through before it raises (all, if it does not)
Targets(names) ==
    IF names = <<>> THEN DOMAIN name_to_rule
    ELSE {names[i] : i \in {j \in 1..Len(names) :
                              \A k \in 1..j : names[k] \in DOMAIN name_to_rule}}

\* an unschedule that clears the whole watch manager
unschedule_every_watch(names) ==
    /\ wm' = <<>>
    /\ UNCHANGED <<nextWd, notifiers, name_to_rule, status>>
    /\ last' = [op |-> "unschedule", result |-> "ok"]

unschedule(names) ==
    LET missing == \E i \in 1..Len(names) : names[i] \notin DOMAIN name_to_rule
        wds == UNION {name_to_rule[n].descriptors : n \in Targets(names)}
    IN /\ wm' = rm_watch(wm, wds)
       /\ UNCHANGED <<nextWd, notifiers, name_to_rule>>
       /\ IF missing
          THEN /\ last' = [op |-> "unschedule", result |-> "KeyError"]
               /\ UNCHANGED status
          ELSE /\ last' = [op |-> "unschedule", result |-> "ok"]
               /\ status' = [n \in Names |->
                               IF n \in Targets(names) THEN "unscheduled"
                               ELSE status[n]]

Unschedule ==
    /\ \E names \in NamesArgs : unschedule(names)
    /\ dispatched' = None
    /\ UNCHANGED <<stopped, queue, added, threads>>

\* for notifier in self._notifiers: notifier.stop()
on_stopping ==
    /\ notifiers' = [i \in DOMAIN notifiers |->
                        [notifiers[i] EXCEPT !.stops = @ + 1]]
    /\ UNCHANGED <<wm, nextWd, name_to_rule>>

\* DaemonThread.stop: self.stopped.set(); self.on_stopping()
stop ==
    /\ \A i \in DOMAIN notifiers : notifiers[i].stops < MaxStops
    /\ stopped' = TRUE
    /\ on_stopping
    /\ last' = [op |-> "stop", result |-> "ok"]
    /\ dispatched' = None
    /\ UNCHANGED <<queue, status, added, threads>>

(***************************************************************************)
(* Raw inotify events and the filesystem changes that raise them           *)
(***************************************************************************)
\* the n entries below a directory about to be moved: entry i is a directory
\* <i> for odd i, and a file <i-1>/<i> inside the directory before it for even i
Entry(i) ==
    IF i % 2 = 1 THEN [rel |-> <<ToString(i)>>, dir |-> TRUE]
    ELSE [rel |-> <<ToString(i - 1), ToString(i)>>, dir |-> FALSE]

Perms(n) == {f \in [1..n -> 1..n] : \A i, j \in 1..n : f[i] = f[j] => i = j}

Masks == {"IN_CREATE", "IN_DELETE", "IN_CLOSE_WRITE", "IN_ATTRIB", "IN_MOVED_TO",
          "IN_MOVED_FROM"}

\* the pyinotify event for a change to entry x of the directory watched by wd;
\* IN_MOVED_TO is the rename of entry w to x, seen with its IN_MOVED_FROM half
\* (src_pathname set); IN_MOVED_FROM is entry x moved out of every watched
\* directory, which no IN_MOVED_TO follows; subtree counts the entries below a
\* moved directory;
\* retired is history: the names whose unschedule had completed at the change
RawEvent(mask, wd, dir, n) ==
    [maskname |-> mask, wd |-> wd, dir |-> dir,
     pathname |-> wm[wd] \o <<"x">>,
     src_pathname |-> IF mask = "IN_MOVED_TO" THEN wm[wd] \o <<"w">> ELSE <<>>,
     subtree |-> n,
     retired |-> {name \in Names : status[name] = "unscheduled"}]

AllEvents ==
    {RawEvent(m, wd, d, 0) : m \in Masks, wd \in DOMAIN wm, d \in BOOLEAN}
    \cup {RawEvent("IN_MOVED_TO", wd, TRUE, n) : wd \in DOMAIN wm, n \in 1..MaxDesc}

LifecycleEvents ==
    {RawEvent("IN_CREATE", wd, FALSE, 0) : wd \in DOMAIN wm}

(***************************************************************************)
(* watchdog.events                                                         *)
(***************************************************************************)
Event(cls, src_path) == [cls |-> cls, src_path |-> src_path, dest_path |-> <<>>]

MovedEvent(cls, src_path, dest_path) ==
    [cls |-> cls, src_path |-> src_path, dest_path |-> dest_path]

\* get_moved_events_for(src_path, dest_path, recursive=True): one moved event per
\* entry below the moved directory, the directory's prefix rewritten, in the
\* order the walk meets them
get_moved_events_for(src_path, dest_path, n, order) ==
    [i \in 1..n |->
        LET e == Entry(order[i])
        IN MovedEvent(IF e.dir THEN "DirMovedEvent" ELSE "FileMovedEvent",
                      src_path \o e.rel, dest_path \o e.rel)]

(***************************************************************************)
(* _ProcessEventDispatcher: each method returns what it dispatches to      *)
(* self.event_handler, in order, and whether it called the synthesizer     *)
(***************************************************************************)
process_IN_CREATE(event) ==
    LET src_path == absolute_path(event.pathname)
    IN [out |-> IF event.dir THEN <<Event("DirCreatedEvent", src_path)>>
                ELSE <<Event("FileCreatedEvent", src_path)>>,
        synth |-> FALSE]

process_IN_DELETE_as_file(event) ==
    [out |-> <<Event("FileDeletedEvent", absolute_path(event.pathname))>>,
     synth |-> FALSE]

process_IN_DELETE(event) ==
    LET src_path == absolute_path(event.pathname)
    IN [out |-> IF event.dir THEN <<Event("DirDeletedEvent", src_path)>>
                ELSE <<Event("FileDeletedEvent", src_path)>>,
        synth |-> FALSE]

process_IN_CLOSE_WRITE(event) ==
    LET src_path == absolute_path(event.pathname)
    IN [out |-> IF event.dir THEN <<Event("DirModifiedEvent", src_path)>>
                ELSE <<Event("FileModifiedEvent", src_path)>>,
        synth |-> FALSE]

process_IN_ATTRIB(event) == process_IN_CLOSE_WRITE(event)

\* pyinotify's ProcessEvent.process_default, which the class does not override:
\* it does nothing
process_default(event) == [out |-> <<>>, synth |-> FALSE]

process_IN_MOVED_TO_parent_first(is_recursive, event, order) ==
    LET src_path == absolute_path(event.src_pathname)
        dest_path == absolute_path(event.pathname)
    IN IF event.dir
       THEN [out |-> <<MovedEvent("DirMovedEvent", src_path, dest_path)>>
                     \o (IF is_recursive
                         THEN get_moved_events_for(src_path, dest_path,
                                                   event.subtree, order)
                         ELSE <<>>),
             synth |-> is_recursive]
       ELSE [out |-> <<MovedEvent("FileMovedEvent", src_path, dest_path)>>,
             synth |-> FALSE]

process_IN_MOVED_TO_always_expands(is_recursive, event, order) ==
    LET src_path == absolute_path(event.src_pathname)
        dest_path == absolute_path(event.pathname)
    IN IF event.dir
       THEN [out |-> get_moved_events_for(src_path, dest_path,
                                          event.subtree, order)
                     \o <<MovedEvent("DirMovedEvent", src_path, dest_path)>>,
             synth |-> TRUE]
       ELSE [out |-> <<MovedEvent("FileMovedEvent", src_path, dest_path)>>,
             synth |-> FALSE]

process_IN_MOVED_TO(is_recursive, event, order) ==
    LET src_path == absolute_path(event.src_pathname)
        dest_path == absolute_path(event.pathname)
    IN IF event.dir
       THEN [out |-> (IF is_recursive
                      THEN get_moved_events_for(src_path, dest_path,
                                                event.subtree, order)
                      ELSE <<>>)
                     \o <<MovedEvent("DirMovedEvent", src_path, dest_path)>>,
             synth |-> is_recursive]
       ELSE [out |-> <<MovedEvent("FileMovedEvent", src_path, dest_path)>>,
             synth |-> FALSE]

\* pyinotify's ProcessEvent.__call__: the method named after the event's mask,
\* process_default when the class has none
process_event(is_recursive, event, order) ==
    CASE event.maskname = "IN_CREATE" -> process_IN_CREATE(event)
      [] event.maskname = "IN_DELETE" -> process_IN_DELETE(event)
      [] event.maskname = "IN_CLOSE_WRITE" -> process_IN_CLOSE_WRITE(event)
      [] event.maskname = "IN_ATTRIB" -> process_IN_ATTRIB(event)
      [] event.maskname = "IN_MOVED_TO" ->
            process_IN_MOVED_TO(is_recursive, event, order)
      [] OTHER -> process_default(event)

\* a change below a watched directory puts its event in the inotify queue
Enqueue(event) ==
    /\ Len(queue) < MaxQueue
    /\ (event.maskname = "IN_CREATE" /\ event.dir) => nextWd <= MaxWd
    /\ queue' = Append(queue, event)
    /\ last' = None
    /\ dispatched' = None
    /\ UNCHANGED <<observer, stopped, status, added, threads>>

Change == \E event \in LifecycleEvents : Enqueue(event)

ChangeAny == \E event \in AllEvents : Enqueue(event)

\* the auto_add argument schedule passes to add_watch, whatever `recursive` is
auto_add == TRUE

\* pyinotify's own handling of IN_CREATE for a directory below a watch that was
\* added with auto_add: the new directory gets a watch of its own
AutoAdd(event) ==
    IF /\ auto_add
       /\ event.maskname = "IN_CREATE"
       /\ event.dir
       /\ event.wd \in DOMAIN wm
    THEN AddEach(wm, nextWd, <<event.pathname>>, {})
    ELSE [wm |-> wm, nextWd |-> nextWd, ret |-> {}]

\* a running notifier thread reads the next event and processes it with the
\* dispatcher it was built with (ThreadedNotifier.run -> process_events)
Pump ==
    /\ queue # <<>>
    /\ \E i \in DOMAIN notifiers :
          /\ notifiers[i].started
          /\ notifiers[i].stops = 0
          /\ \E order \in Perms(Head(queue).subtree) :
                LET p == process_event(notifiers[i].recursive, Head(queue), order)
                IN dispatched' =
                      [op |-> "dispatch", notifier |-> i,
                       event_handler |-> notifiers[i].event_handler,
                       is_recursive |-> notifiers[i].recursive,
                       event |-> Head(queue), out |-> p.out, synth |-> p.synth]
    /\ wm' = AutoAdd(Head(queue)).wm
    /\ nextWd' = AutoAdd(Head(queue)).nextWd
    /\ queue' = Tail(queue)
    /\ last' = None
    /\ UNCHANGED <<notifiers, name_to_rule, stopped, status, added, threads>>

Next == Schedule \/ Unschedule \/ stop \/ Change \/ Pump

Spec == Init /\ [][Next]_vars

\* the dispatcher alone: one rule on /a, every kind of event
ScheduleA ==
    /\ \E recursive \in BOOLEAN :
          schedule("r", [tag |-> "str", s |-> DirA, l |-> <<>>], recursive)
    /\ dispatched' = None
    /\ UNCHANGED <<stopped, queue, threads>>

NextDispatch == ScheduleA \/ ChangeAny \/ Pump

SpecDispatch == Init /\ [][NextDispatch]_vars

(***************************************************************************)
(* Threads: callers of the API, the registry lock, the notifier threads    *)
(***************************************************************************)
\* the calls a thread makes: schedule(name, h, '/a'), unschedule(name), stop()
Calls ==
    {[op |-> o, name |-> n] : o \in {"schedule", "unschedule"}, n \in Names}
    \cup {[op |-> "stop", name |-> ""]}

\* the orders in which a loop may walk the set S
Orders(S) ==
    {q \in SeqsUpTo(S, Cardinality(S)) :
        Len(q) = Cardinality(S) /\ {q[k] : k \in DOMAIN q} = S}

Running(i) == notifiers[i].started /\ notifiers[i].stops = 0

\* an acquire that takes the lock whoever owns it
CanAcquire_unguarded(th) == TRUE

\* `with self._lock` on an RLock: free, or already owned by this thread
CanAcquire(th) == lock = Free \/ lock = th

\* a thread calls schedule, unschedule or stop; stop sets the stopped flag
\* before it takes the lock in on_stopping
CallOp ==
    \E t \in Callers, c \in Calls :
       /\ cpc[t] = "idle"
       /\ c.op = "schedule" =>
             Len(notifiers) + Cardinality({u \in Callers : call[u].op = "schedule"})
                < MaxNotifiers
       /\ c.op = "stop" => ~stopped
       /\ call' = [call EXCEPT ![t] = c]
       /\ cpc' = [cpc EXCEPT ![t] = "acquire"]
       /\ stopped' = (stopped \/ c.op = "stop")
       /\ UNCHANGED <<observer, queue, last, dispatched, status, added,
                      lock, todo, npc, cur, arrived, log>>

\* with self._lock: (on_stopping then starts its loop over self._notifiers)
Acquire ==
    \E t \in Callers :
       /\ cpc[t] = "acquire"
       /\ CanAcquire(t)
       /\ lock' = t
       /\ cpc' = [cpc EXCEPT ![t] = "locked"]
       /\ IF call[t].op = "stop"
          THEN todo' \in Orders(DOMAIN notifiers)
          ELSE UNCHANGED todo
       /\ UNCHANGED <<observer, stopped, queue, last, dispatched, status, added,
                      call, npc, cur, arrived, log>>

\* what a call does inside the lock
Body(c) ==
    IF c.op = "schedule"
    THEN schedule(c.name, [tag |-> "str", s |-> DirA, l |-> <<>>], FALSE)
    ELSE unschedule(<<c.name>>) /\ UNCHANGED added

\* the body of schedule or unschedule, and the end of its with block
CallBody ==
    \E t \in Callers :
       /\ cpc[t] = "locked"
       /\ call[t].op # "stop"
       /\ Body(call[t])
       /\ lock' = Free
       /\ cpc' = [cpc EXCEPT ![t] = "idle"]
       /\ call' = [call EXCEPT ![t] = None]
       /\ UNCHANGED <<stopped, queue, dispatched, todo, npc, cur, arrived, log>>

\* notifier.stop() in on_stopping's loop: ThreadedNotifier.stop sets the stop
\* event and joins the thread, which leaves its loop once it is not processing
StopOne ==
    \E t \in Callers :
       /\ cpc[t] = "locked"
       /\ call[t].op = "stop"
       /\ todo # <<>>
       /\ npc[Head(todo)] = "poll"
       /\ notifiers' = [notifiers EXCEPT ![Head(todo)].stops = @ + 1]
       /\ todo' = Tail(todo)
       /\ UNCHANGED <<wm, nextWd, name_to_rule, stopped, queue, last, dispatched,
                      status, added, lock, cpc, call, npc, cur, arrived, log>>

\* on_stopping's loop is over: the with block ends
StopRelease ==
    \E t \in Callers :
       /\ cpc[t] = "locked"
       /\ call[t].op = "stop"
       /\ todo = <<>>
       /\ lock' = Free
       /\ cpc' = [cpc EXCEPT ![t] = "idle"]
       /\ call' = [call EXCEPT ![t] = None]
       /\ last' = [op |-> "stop", result |-> "ok"]
       /\ UNCHANGED <<observer, stopped, queue, dispatched, status, added,
                      todo, npc, cur, arrived, log>>

\* a file is created in a watched directory
ChangeT ==
    \E event \in LifecycleEvents :
       /\ Len(queue) < MaxQueue
       /\ arrived < MaxArrived
       /\ queue' = Append(queue, event)
       /\ arrived' = arrived + 1
       /\ UNCHANGED <<observer, stopped, last, dispatched, status, added,
                      lock, cpc, call, todo, npc, cur, log>>

\* Notifier.read_events: a running notifier thread takes the next event from
\* the shared queue; seq is the event's position in the order of arrival
Read ==
    \E i \in DOMAIN notifiers :
       /\ Running(i)
       /\ npc[i] = "poll"
       /\ queue # <<>>
       /\ cur' = [cur EXCEPT ![i] =
                     [op |-> "event", event |-> Head(queue),
                      seq |-> arrived - Len(queue) + 1]]
       /\ queue' = Tail(queue)
       /\ npc' = [npc EXCEPT ![i] = "read"]
       /\ UNCHANGED <<observer, stopped, last, dispatched, status, added,
                      lock, cpc, call, todo, arrived, log>>

\* Notifier.process_events: the dispatcher translates the event and calls
\* self._event_handler.dispatch for what it produced
Dispatch ==
    \E i \in DOMAIN notifiers :
       /\ npc[i] = "read"
       /\ LET p == process_event(notifiers[i].recursive, cur[i].event, <<>>)
          IN log' = Append(log, [notifier |-> i,
                                 event_handler |-> notifiers[i].event_handler,
                                 wd |-> cur[i].event.wd, seq |-> cur[i].seq,
                                 out |-> p.out])
       /\ npc' = [npc EXCEPT ![i] = "handler"]
       /\ UNCHANGED <<observer, stopped, queue, last, dispatched, status, added,
                      lock, cpc, call, todo, cur, arrived>>

\* the handler returns
Return ==
    \E i \in DOMAIN notifiers :
       /\ npc[i] = "handler"
       /\ npc' = [npc EXCEPT ![i] = "poll"]
       /\ cur' = [cur EXCEPT ![i] = None]
       /\ UNCHANGED <<observer, stopped, queue, last, dispatched, status, added,
                      lock, cpc, call, todo, arrived, log>>

\* the handler calls unschedule(name) for its own rule
HandlerCall ==
    \E i \in DOMAIN notifiers :
       /\ npc[i] = "handler"
       /\ npc' = [npc EXCEPT ![i] = "acquire"]
       /\ UNCHANGED <<observer, stopped, queue, last, dispatched, status, added,
                      lock, cpc, call, todo, cur, arrived, log>>

HandlerAcquire ==
    \E i \in DOMAIN notifiers :
       /\ npc[i] = "acquire"
       /\ CanAcquire(WorkerThread(i))
       /\ lock' = WorkerThread(i)
       /\ npc' = [npc EXCEPT ![i] = "locked"]
       /\ UNCHANGED <<observer, stopped, queue, last, dispatched, status, added,
                      cpc, call, todo, cur, arrived, log>>

\* the handler's unschedule runs, the with block ends, and the handler returns
HandlerBody ==
    \E i \in DOMAIN notifiers :
       /\ npc[i] = "locked"
       /\ unschedule(<<notifiers[i].event_handler>>)
       /\ lock' = Free
       /\ npc' = [npc EXCEPT ![i] = "poll"]
       /\ cur' = [cur EXCEPT ![i] = None]
       /\ UNCHANGED <<stopped, queue, dispatched, added, cpc, call, todo,
                      arrived, log>>

NextThreads ==
    \/ CallOp \/ Acquire \/ CallBody \/ StopOne \/ StopRelease
    \/ ChangeT \/ Read \/ Dispatch \/ Return
    \/ HandlerCall \/ HandlerAcquire \/ HandlerBody

SpecThreads == Init /\ [][NextThreads]_vars

\* every thread that can take a step eventually takes it: a handler that is
\* allowed to run returns, a thread that can have the lock gets it
SpecFair ==
    /\ SpecThreads
    /\ WF_vars(Acquire) /\ WF_vars(CallBody) /\ WF_vars(StopOne)
    /\ WF_vars(StopRelease) /\ WF_vars(Read) /\ WF_vars(Dispatch)
    /\ WF_vars(Return \/ HandlerCall) /\ WF_vars(HandlerAcquire)
    /\ WF_vars(HandlerBody)

(***************************************************************************)
(* Claims                                                                  *)
(***************************************************************************)
Registered(names) == \A i \in 1..Len(names) : names[i] \in DOMAIN name_to_rule

\* C1: when unschedule(names) returns for registered rules (or unschedule()
\* returns), each targeted rule's notifier has been told to stop and its name
\* is no longer a key of the registry.
C1_UnscheduleStopsAndReleases ==
    [][\A names \in NamesArgs :
          (Registered(names) /\ unschedule(names))
          => \A n \in Targets(names) :
                /\ n \notin DOMAIN name_to_rule'
                /\ notifiers'[name_to_rule[n].notifier].stops > 0]_vars

\* C2: schedule(name, paths) puts the wd of every path into the rule, and after
\* unschedule(name) none of the watches that schedule obtained for the rule is
\* still active.
C2_EveryPathCollectedAndRemoved ==
    [][/\ \A name \in Names, paths \in PathsArgs, recursive \in BOOLEAN :
             (schedule(name, paths, recursive) /\ last'.result = "ok")
             => added'[name] \subseteq name_to_rule'[name].descriptors
       /\ \A names \in NamesArgs :
             (Registered(names) /\ unschedule(names))
             => \A n \in Targets(names) : added[n] \cap DOMAIN wm' = {}]_vars

\* C3: a handler receives nothing for a change that happened after the
\* unschedule of its rule completed (the rule not having been scheduled again).
C3_NoEventAfterUnschedule ==
    (dispatched.op = "dispatch" /\ dispatched.out # <<>>)
    => ~(/\ dispatched.event_handler \in dispatched.event.retired
         /\ status[dispatched.event_handler] = "unscheduled")

IsEmptyPaths(paths) ==
    \/ paths.tag = "None"
    \/ paths.tag = "str" /\ paths.s = EmptyStr
    \/ paths.tag = "list" /\ paths.l = <<>>

\* C4: schedule with empty or absent paths raises ValueError and leaves the
\* watches, the notifier set and the registry as they were.
C4_EmptyPathsRejected ==
    [][\A name \in Names, paths \in PathsArgs, recursive \in BOOLEAN :
          (IsEmptyPaths(paths) /\ schedule(name, paths, recursive))
          => /\ last'.result = "ValueError"
             /\ UNCHANGED <<wm, nextWd, notifiers, name_to_rule>>]_vars

C4_Witness ==
    /\ last = [op |-> "schedule", result |-> "ValueError"]
    /\ DOMAIN name_to_rule # {}
    /\ DOMAIN wm # {}

HasNonString(paths) ==
    paths.tag = "list" /\ \E i \in 1..Len(paths.l) : paths.l[i] = NotAString

\* C5: schedule with a non-string element among its paths fails with no watch
\* added, no notifier added to the notifier set and no registry entry made.
C5_BadPathRejectedWhole ==
    [][\A name \in Names, paths \in PathsArgs, recursive \in BOOLEAN :
          (HasNonString(paths) /\ schedule(name, paths, recursive))
          => /\ last'.result = "TypeError"
             /\ UNCHANGED <<wm, nextWd, notifiers, name_to_rule>>]_vars

\* C6: unschedule(n) raises KeyError exactly when n is not currently scheduled
\* (never scheduled, or unscheduled since).
C6_NotFoundIffNotScheduled ==
    [][\A n \in Names :
          (~stopped /\ unschedule(<<n>>))
          => (last'.result = "KeyError" <=> status[n] # "scheduled")]_vars

\* C7: when stop() completes the observer is stopped, every registered rule has
\* had its notifier stopped and its watches removed, and the registry is empty.
C7_StopUnschedulesAll ==
    [][stop
       => /\ stopped'
          /\ \A n \in DOMAIN name_to_rule :
                /\ notifiers'[name_to_rule[n].notifier].stops > 0
                /\ name_to_rule[n].descriptors \cap DOMAIN wm' = {}
          /\ DOMAIN name_to_rule' = {}]_vars

\* C8: stop() on a stopped observer raises nothing, changes nothing and stops
\* no notifier again.
C8_SecondStopIsNoOp ==
    [][(stopped /\ stop)
       => /\ last'.result = "ok"
          /\ UNCHANGED <<wm, nextWd, notifiers, name_to_rule>>]_vars

IsDirMove(d) ==
    /\ d.op = "dispatch"
    /\ d.event.maskname = "IN_MOVED_TO"
    /\ d.event.dir

C10_SingleMovedEvent ==
    (/\ dispatched.op = "dispatch"
     /\ dispatched.event.maskname = "IN_MOVED_TO"
     /\ (~dispatched.is_recursive \/ ~dispatched.event.dir))
    => /\ dispatched.out =
             <<[cls |-> IF dispatched.event.dir THEN "DirMovedEvent"
                        ELSE "FileMovedEvent",
                src_path |-> dispatched.event.src_pathname,
                dest_path |-> dispatched.event.pathname]>>
       /\ ~dispatched.synth

C10_Witness ==
    /\ IsDirMove(dispatched)
    /\ ~dispatched.is_recursive
    /\ dispatched.event.subtree = MaxDesc
    /\ Len(dispatched.out) = 1

\* C11: an IN_MOVED_FROM that no IN_MOVED_TO follows is not dropped: processing
\* it gives the handler a deleted event (file or directory, as the event says)
\* at the source path.
C11_UnmatchedMoveFromIsDeleted ==
    (dispatched.op = "dispatch" /\ dispatched.event.maskname = "IN_MOVED_FROM")
    => \E i \in 1..Len(dispatched.out) :
          dispatched.out[i] =
             [cls |-> IF dispatched.event.dir THEN "DirDeletedEvent"
                      ELSE "FileDeletedEvent",
              src_path |-> dispatched.event.pathname, dest_path |-> <<>>]

SimpleClass(mask, dir) ==
    CASE mask = "IN_CREATE" -> IF dir THEN "DirCreatedEvent" ELSE "FileCreatedEvent"
      [] mask = "IN_DELETE" -> IF dir THEN "DirDeletedEvent" ELSE "FileDeletedEvent"
      [] OTHER -> IF dir THEN "DirModifiedEvent" ELSE "FileModifiedEvent"

\* C12: a create, delete, attribute-change or write-close event at p dispatches
\* exactly one event: created, deleted or modified at p, of the directory class
\* when the event is for a directory and of the file class otherwise.
C12_OneEventPerSimpleNotification ==
    (/\ dispatched.op = "dispatch"
     /\ dispatched.event.maskname \in
           {"IN_CREATE", "IN_DELETE", "IN_CLOSE_WRITE", "IN_ATTRIB"})
    => dispatched.out =
          <<[cls |-> SimpleClass(dispatched.event.maskname, dispatched.event.dir),
             src_path |-> dispatched.event.pathname, dest_path |-> <<>>]>>

C12_Witness ==
    /\ dispatched.op = "dispatch"
    /\ dispatched.event.maskname = "IN_DELETE"
    /\ dispatched.event.dir
    /\ Len(dispatched.out) = 1

\* C16: recursive coverage and automatic extension are requested exactly when
\* recursive is true: a recursive schedule of /a also watches /a/s, and while
\* only non-recursive rules were scheduled on /a nothing but /a is watched, also
\* after a subdirectory is created below it.
C16_ExtensionOnlyWhenRecursive ==
    /\ (\E i \in DOMAIN notifiers : notifiers[i].recursive)
          => \E d \in DOMAIN wm : wm[d] = DirAS
    /\ (\A i \in DOMAIN notifiers : ~notifiers[i].recursive)
          => \A d \in DOMAIN wm : wm[d] = DirA

\* the wds some registry entry holds
Held(rules) == UNION {rules[n].descriptors : n \in DOMAIN rules}

\* schedule(name, ...) succeeding for a name that is already a key of the registry
Overwrites(name, paths, recursive) ==
    /\ name \in DOMAIN name_to_rule
    /\ schedule(name, paths, recursive)
    /\ last'.result = "ok"

\* C17 as stated: a schedule for a registered name keeps the prior rule's
\* watches and leaves its notifier running, and afterwards none of the prior
\* rule's active watches is held by any registry entry.
C17_PriorWatchesUnreachable ==
    [][\A name \in Names, paths \in PathsArgs, recursive \in BOOLEAN :
          Overwrites(name, paths, recursive)
          => LET prior == name_to_rule[name]
             IN /\ prior.descriptors \cap DOMAIN wm \subseteq DOMAIN wm'
                /\ notifiers'[prior.notifier] = notifiers[prior.notifier]
                /\ prior.descriptors \cap DOMAIN wm' \cap Held(name_to_rule') = {}]_vars

\* C17, amended: a schedule for a registered name keeps the prior rule's watches
\* and leaves its notifier as it was, the entry now naming a new notifier; and
\* an unschedule call removes a watch only if some registry entry holds its wd,
\* so a prior watch stays removable exactly while a current entry holds the
\* same wd (the same directory scheduled again) and is out of reach otherwise.
C17_PriorWatchesLeak ==
    [][/\ \A name \in Names, paths \in PathsArgs, recursive \in BOOLEAN :
             Overwrites(name, paths, recursive)
             => LET prior == name_to_rule[name]
                IN /\ prior.descriptors \cap DOMAIN wm \subseteq DOMAIN wm'
                   /\ notifiers'[prior.notifier] = notifiers[prior.notifier]
                   /\ name_to_rule'[name].notifier # prior.notifier
       /\ \A names \in NamesArgs :
             unschedule(names)
             => (DOMAIN wm \ DOMAIN wm') \subseteq Held(name_to_rule)]_vars

\* both notifiers were started for the same name, every rule was unscheduled,
\* and a watch no entry holds is still active
C17_Witness ==
    /\ last = [op |-> "unschedule", result |-> "ok"]
    /\ Len(notifiers) = 2
    /\ notifiers[1].event_handler = notifiers[2].event_handler
    /\ notifiers[1].started /\ notifiers[2].started
    /\ \E d \in DOMAIN wm : d \notin Held(name_to_rule)

\* C18: each rule's notifier pumps only that rule's notifications: whatever is
\* dispatched to a rule's handler stems from a notification on a watch that
\* rule's schedule obtained (no name having been scheduled twice).
C18_WorkerPumpsOwnRuleOnly ==
    (/\ dispatched.op = "dispatch"
     /\ \A i, j \in DOMAIN notifiers :
           i # j => notifiers[i].event_handler # notifiers[j].event_handler)
    => dispatched.event.wd \in added[dispatched.event_handler]

\* C19: once stop() has completed no notifier is running, whatever is called
\* afterwards (schedule included).
C19_StoppedIsTerminal ==
    stopped => \A i \in DOMAIN notifiers : ~Running(i)

\* C13: a handler receives the events for its rule's watches in the order the
\* raw notifications arrived: of two invocations of one rule's handler for
\* events on that rule's watches, the earlier one is for the earlier arrival.
C13_ArrivalOrderPerRule ==
    \A i, j \in 1..Len(log) :
       (/\ i < j
        /\ log[i].event_handler = log[j].event_handler
        /\ log[i].wd \in added[log[i].event_handler]
        /\ log[j].wd \in added[log[j].event_handler])
       => log[i].seq < log[j].seq

\* the threads that are inside a `with self._lock` block
Holders ==
    {t \in Callers : cpc[t] = "locked"}
    \cup {WorkerThread(i) : i \in {j \in 1..MaxNotifiers : npc[j] = "locked"}}

C15_UnscheduleLeavesOtherRulesAlone ==
    [][\A t \in Callers :
          (/\ cpc[t] = "locked"
           /\ call[t].op = "unschedule"
           /\ call[t].name \in DOMAIN name_to_rule
           /\ cpc'[t] = "idle")
          => \A b \in DOMAIN name_to_rule \ {call[t].name} :
                LET j == name_to_rule[b].notifier
                IN npc[j] = "handler"
                   => /\ npc'[j] = npc[j]
                      /\ cur'[j] = cur[j]
                      /\ notifiers'[j] = notifiers[j]
                      /\ name_to_rule[b].descriptors \cap DOMAIN wm
                            \subseteq DOMAIN wm']_vars

\* C20: stop() cannot deadlock: once on_stopping holds the registry lock it
\* eventually finishes and releases it, handlers returning whenever they can
\* run, also when a handler calls unschedule meanwhile.
C20_StopCompletes ==
    (\E t \in Callers : cpc[t] = "locked" /\ call[t].op = "stop")
    ~> (\A t \in Callers : call[t].op # "stop")

====
